---------------------------- MODULE Spec2Model ----------------------------
(***************************************************************************)
(* Model of the flight-analysis batch job (src/pyspark/code_final_v1.py)   *)
(* and of the /results endpoint of its control plane                       *)
(* (src/api/flask_app.py).                                                 *)
(*                                                                         *)
(* Strings are sequences of character codes, so that str.split(',') and    *)
(* Python's string ordering are computed, not assumed.  An RDD is a        *)
(* sequence of elements.  A Python call that may raise yields a record     *)
(* [status, rdd] whose status is "ok" or the name of the exception.        *)
(***************************************************************************)
EXTENDS Integers, Sequences, FiniteSets, TLC

VARIABLES
    pc,         \* position of the running job / handler
    input,      \* flights_data: the lines of flights_data.txt
    emitted,    \* the ((a, b), 1) increments flatMap produces
    result,     \* outcome of co_occurring_airline_pairs_by_origin(..).collect()
    cut,        \* rows 1..cut form the first partition, the rest the second
    partial,    \* the outcomes of the aggregation run on each partition alone
    store,      \* the bucket: output path |-> the objects under that path
    before,     \* the bucket as the run (or the Sink call) found it
    sinkPc,     \* position inside save_json_to_gcs
    sinkPath,   \* gcs_path of the Sink call
    sinkObj,    \* obj of the Sink call
    deleted,    \* what delete_gcs_path printed: "Deleted", "Not found", "Error"
    crashedAt,  \* the Sink position at which the process died, if it did
    calls,      \* number of Sink calls made so far
    formatted_p1,     \* main's problem-1 document
    result_problem2,  \* main's problem-2 document
    abortedAt,        \* the step of main whose exception ended the run
    request,          \* GET /results: the bucket and path arguments
    transport,        \* which of the two reads the storage service fails
    results,          \* get_results: the results dict
    client_error,     \* get_results: the client_error flag
    response          \* get_results: the status code and body returned

aggVars == <<input, emitted, result, cut, partial>>
sinkVars == <<store, before, sinkPc, sinkPath, sinkObj, deleted, crashedAt, calls>>
mainVars == <<formatted_p1, result_problem2, abortedAt>>
apiVars == <<request, transport, results, client_error, response>>
vars == <<pc, aggVars, sinkVars, mainVars, apiVars>>

(***************************************************************************)
(* Bounds of the model.                                                    *)
(***************************************************************************)
NumAirlines == 3
MaxLines == 5
MaxShardLines == 4
MaxRawLines == 3
MaxSinkCalls == 2
NumMainAirlines == 6

(***************************************************************************)
(* Characters and strings.                                                 *)
(***************************************************************************)
Comma == 44

\* Python's < on str: lexicographic by code point, a proper prefix is smaller.
RECURSIVE StrLess(_, _)
StrLess(s, t) ==
    IF t = <<>> THEN FALSE
    ELSE IF s = <<>> THEN TRUE
    ELSE IF Head(s) < Head(t) THEN TRUE
    ELSE IF Head(s) > Head(t) THEN FALSE
    ELSE StrLess(Tail(s), Tail(t))

\* line.split(','): the fields between the commas; always at least one field.
RECURSIVE Split(_)
Split(line) ==
    IF line = <<>> THEN << <<>> >>
    ELSE LET rest == Split(Tail(line))
         IN  IF Head(line) = Comma
             THEN << <<>> >> \o rest
             ELSE << <<Head(line)>> \o Head(rest) >> \o Tail(rest)

\* The airline codes "A", "AA", "B", "BA", "C", ... in increasing order.
AirlineCode(i) ==
    IF i % 2 = 1 THEN <<65 + (i \div 2)>> ELSE <<64 + (i \div 2), 65>>

\* The dates "1", "2", ... and the origins "X", "Y", ...
DateStr(d) == <<48 + d>>
OriginStr(o) == <<87 + o>>

\* One row of flights_data.txt: date,airline,origin.
Line(date, airline, origin) ==
    date \o <<Comma>> \o airline \o <<Comma>> \o origin

(***************************************************************************)
(* co_occurring_airline_pairs_by_origin                                    *)
(***************************************************************************)
Ok(rdd) == [status |-> "ok", rdd |-> rdd]
Raised(exc) == [status |-> exc, rdd |-> <<>>]

\* flights_data.map(lambda line: line.split(','))
parsed_data(flights_data) ==
    [i \in 1..Len(flights_data) |-> Split(flights_data[i])]

\* parsed_data.map(lambda x: ((x[0], x[2]), x[1])); x[2] raises IndexError
\* on a row of fewer than three fields, which aborts the job.
date_origin_airline(parsed) ==
    IF \E i \in 1..Len(parsed) : Len(parsed[i]) < 3
    THEN Raised("IndexError")
    ELSE Ok([i \in 1..Len(parsed) |-> <<<<parsed[i][1], parsed[i][3]>>, parsed[i][2]>>])

\* groupByKey().mapValues(list): one element (key, values) per distinct key.
RECURSIVE groupByKey(_)
groupByKey(kvs) ==
    IF kvs = <<>> THEN <<>>
    ELSE LET n    == Len(kvs)
             rest == groupByKey(SubSeq(kvs, 1, n - 1))
             k    == kvs[n][1]
             v    == kvs[n][2]
         IN  IF \E g \in 1..Len(rest) : rest[g][1] = k
             THEN [g \in 1..Len(rest) |->
                     IF rest[g][1] = k
                     THEN <<k, Append(rest[g][2], v)>>
                     ELSE rest[g]]
             ELSE Append(rest, <<k, <<v>>>>)

\* sorted(set(airlines))
RECURSIVE SortedStrs(_)
SortedStrs(S) ==
    IF S = {} THEN <<>>
    ELSE LET m == CHOOSE x \in S : \A y \in S \ {x} : StrLess(x, y)
         IN  <<m>> \o SortedStrs(S \ {m})

\* [((u[i], u[j]), 1) for i in range(len(u)) for j in range(i + 1, len(u))]
RECURSIVE PairsFrom(_, _, _)
PairsFrom(u, i, j) ==
    IF i > Len(u) THEN <<>>
    ELSE IF j > Len(u) THEN PairsFrom(u, i + 1, i + 2)
    ELSE <<<<<<u[i], u[j]>>, 1>>>> \o PairsFrom(u, i, j + 1)

\* Mutation: sorted(airlines) without set(): a repeated code stays repeated.
RECURSIVE SortedWithRepeats(_)
SortedWithRepeats(airlines) ==
    IF airlines = <<>> THEN <<>>
    ELSE LET n    == Len(airlines)
             rest == SortedWithRepeats(SubSeq(airlines, 1, n - 1))
             p    == Cardinality({i \in 1..Len(rest) : ~ StrLess(airlines[n], rest[i])})
         IN  SubSeq(rest, 1, p) \o <<airlines[n]>> \o SubSeq(rest, p + 1, Len(rest))

generate_pairs_no_set(airlines) == PairsFrom(SortedWithRepeats(airlines), 1, 2)

\* Mutation: list(set(airlines)) without sorted(): the codes in the order met.
RECURSIVE FirstSeen(_)
FirstSeen(airlines) ==
    IF airlines = <<>> THEN <<>>
    ELSE LET n    == Len(airlines)
             rest == FirstSeen(SubSeq(airlines, 1, n - 1))
         IN  IF \E i \in 1..Len(rest) : rest[i] = airlines[n]
             THEN rest
             ELSE Append(rest, airlines[n])

generate_pairs_unsorted(airlines) == PairsFrom(FirstSeen(airlines), 1, 2)

generate_pairs(airlines) ==
    LET u == SortedStrs({airlines[i] : i \in 1..Len(airlines)})
    IN  PairsFrom(u, 1, 2)

\* grouped_airlines.flatMap(lambda x: generate_pairs(x[1]))
RECURSIVE flatMapPairs(_)
flatMapPairs(grouped) ==
    IF grouped = <<>> THEN <<>>
    ELSE generate_pairs(Head(grouped)[2]) \o flatMapPairs(Tail(grouped))

\* Mutation: reduceByKey(lambda a, b: b), which keeps the last value.
RECURSIVE reduceByKey_last(_)
reduceByKey_last(kvs) ==
    IF kvs = <<>> THEN <<>>
    ELSE LET n    == Len(kvs)
             rest == reduceByKey_last(SubSeq(kvs, 1, n - 1))
             k    == kvs[n][1]
             v    == kvs[n][2]
         IN  IF \E g \in 1..Len(rest) : rest[g][1] = k
             THEN [g \in 1..Len(rest) |->
                     IF rest[g][1] = k THEN <<k, v>> ELSE rest[g]]
             ELSE Append(rest, <<k, v>>)

\* .reduceByKey(lambda a, b: a + b)
RECURSIVE reduceByKey(_)
reduceByKey(kvs) ==
    IF kvs = <<>> THEN <<>>
    ELSE LET n    == Len(kvs)
             rest == reduceByKey(SubSeq(kvs, 1, n - 1))
             k    == kvs[n][1]
             v    == kvs[n][2]
         IN  IF \E g \in 1..Len(rest) : rest[g][1] = k
             THEN [g \in 1..Len(rest) |->
                     IF rest[g][1] = k THEN <<k, rest[g][2] + v>> ELSE rest[g]]
             ELSE Append(rest, <<k, v>>)

\* The sort key lambda x: (-x[1], x[0][0], x[0][1]) and Python's < on it.
\* Mutation: the key lambda x: -x[1], without the two tie-breaks.
sort_key_count_only(x) == <<0 - x[2], <<>>, <<>>>>

sort_key(x) == <<0 - x[2], x[1][1], x[1][2]>>

KeyLess(k1, k2) ==
    \/ k1[1] < k2[1]
    \/ k1[1] = k2[1] /\ StrLess(k1[2], k2[2])
    \/ k1[1] = k2[1] /\ k1[2] = k2[2] /\ StrLess(k1[3], k2[3])

\* .sortBy(key): ascending by key; elements of equal key keep their order.
RECURSIVE sortBy(_)
sortBy(rdd) ==
    IF rdd = <<>> THEN <<>>
    ELSE LET n      == Len(rdd)
             sorted == sortBy(SubSeq(rdd, 1, n - 1))
             x      == rdd[n]
             p      == Cardinality({i \in 1..Len(sorted) :
                                      ~ KeyLess(sort_key(x), sort_key(sorted[i]))})
         IN  SubSeq(sorted, 1, p) \o <<x>> \o SubSeq(sorted, p + 1, Len(sorted))

\* The increments the flatMap stage emits, and the whole function.
pair_increments(flights_data) ==
    LET kv == date_origin_airline(parsed_data(flights_data))
    IN  IF kv.status # "ok" THEN kv
        ELSE Ok(flatMapPairs(groupByKey(kv.rdd)))

co_occurring_airline_pairs_by_origin(flights_data) ==
    LET inc == pair_increments(flights_data)
    IN  IF inc.status # "ok" THEN inc
        ELSE Ok(sortBy(reduceByKey(inc.rdd)))

(***************************************************************************)
(* The Sink: delete_gcs_path and save_json_to_gcs.                         *)
(*                                                                         *)
(* The bucket maps each output path to the set of objects under it; a path *)
(* exists when that set is not empty.  Only the data objects of an output  *)
(* are modelled.  saveAsTextFile refuses an existing path, stages the      *)
(* partition under a temporary name, and commits it as part-00000.         *)
(***************************************************************************)
Paths == {"problem1", "problem2"}

NoObjects == [p \in Paths |-> {}]

\* json.dumps(json.loads(json.dumps(obj, default=str)), indent=2): the text
\* of a document whose values are strings and numbers, and a text cut short.
JsonDumps(obj) == [kind |-> "json", value |-> obj]
Truncated(text) == [kind |-> "truncated", value |-> text.value]

\* Mutation: parallelize([json_str], 2), which writes two part files.
PartFiles_two_slices(json_str) ==
    {[name |-> "part-00000", text |-> Truncated(json_str)],
     [name |-> "part-00001", text |-> json_str]}

\* parallelize([json_str], 1): the one partition, committed as part-00000.
PartFiles(json_str) == {[name |-> "part-00000", text |-> json_str]}

\* Mutation: the task writes part-00000 in place instead of staging it.
StagedFiles_in_place(json_str) ==
    {[name |-> "part-00000", text |-> Truncated(json_str)]}

\* The partition while the task writes it: an incomplete text under a
\* temporary name.
StagedFiles(json_str) ==
    {[name |-> "_temporary", text |-> Truncated(json_str)]}

\* fs.exists(path)
Exists(st, path) == st[path] # {}

\* fs.delete(path, True)
Removed(st, path) == [st EXCEPT ![path] = {}]

SinkUnused ==
    /\ store = NoObjects
    /\ before = NoObjects
    /\ sinkPc = "idle"
    /\ sinkPath = "problem1"
    /\ sinkObj = <<>>
    /\ deleted = "-"
    /\ crashedAt = "-"
    /\ calls = 0

MainUnused ==
    /\ formatted_p1 = <<>>
    /\ result_problem2 = <<>>
    /\ abortedAt = "-"

NoResponse == [code |-> 0, status |-> "-"]

ApiUnused ==
    /\ request = [bucket |-> "-", path |-> <<>>]
    /\ transport = <<FALSE, FALSE>>
    /\ results = <<>>
    /\ client_error = FALSE
    /\ response = NoResponse

\* save_json_to_gcs(spark, obj, gcs_path) is entered.
SinkEnter(path, obj) ==
    /\ sinkPc = "idle"
    /\ sinkPc' = "delete"
    /\ sinkPath' = path
    /\ sinkObj' = obj
    /\ deleted' = "-"
    /\ calls' = calls + 1
    /\ UNCHANGED <<store, crashedAt>>

\* delete_gcs_path(spark, gcs_path): removes the path if it exists; an
\* exception of the file system is printed and swallowed, whether the
\* objects were removed before it or not.
DeleteGcsPath ==
    /\ sinkPc = "delete"
    /\ \/ /\ Exists(store, sinkPath)
          /\ store' = Removed(store, sinkPath)
          /\ deleted' = "Deleted"
       \/ /\ ~ Exists(store, sinkPath)
          /\ store' = store
          /\ deleted' = "Not found"
       \/ /\ store' \in {store, Removed(store, sinkPath)}
          /\ deleted' = "Error"
    /\ sinkPc' = "write"
    /\ UNCHANGED <<before, sinkPath, sinkObj, crashedAt, calls>>

\* saveAsTextFile(gcs_path), first half: FileAlreadyExistsException if the
\* path exists, else the partition is staged; an I/O error raises too.
SaveStage ==
    /\ sinkPc = "write"
    /\ \/ /\ Exists(store, sinkPath)
          /\ sinkPc' = "raised"
          /\ store' = store
       \/ /\ ~ Exists(store, sinkPath)
          /\ store' = [store EXCEPT ![sinkPath] = StagedFiles(JsonDumps(sinkObj))]
          /\ sinkPc' = "commit"
       \/ /\ ~ Exists(store, sinkPath)
          /\ sinkPc' = "raised"
          /\ store' \in {store,
                         [store EXCEPT ![sinkPath] = StagedFiles(JsonDumps(sinkObj))]}
    /\ UNCHANGED <<before, sinkPath, sinkObj, deleted, crashedAt, calls>>

\* saveAsTextFile(gcs_path), second half: the staged partition becomes the
\* output; then print and return.
SaveCommit ==
    /\ sinkPc = "commit"
    /\ store' = [store EXCEPT ![sinkPath] = PartFiles(JsonDumps(sinkObj))]
    /\ sinkPc' = "returned"
    /\ UNCHANGED <<before, sinkPath, sinkObj, deleted, crashedAt, calls>>

\* The process dies inside save_json_to_gcs.
SinkCrash ==
    /\ sinkPc \in {"delete", "write", "commit"}
    /\ crashedAt' = sinkPc
    /\ sinkPc' = "crashed"
    /\ UNCHANGED <<before, store, sinkPath, sinkObj, deleted, calls>>

(***************************************************************************)
(* The Sink called on its own: any document, any path, call after call.    *)
(***************************************************************************)
SinkDocs == {<<[q1 |-> "a"]>>, <<[q1 |-> "b"]>>}

InitSink ==
    /\ pc = "sink"
    /\ input = <<>>
    /\ emitted = Ok(<<>>)
    /\ result = Ok(<<>>)
    /\ cut = 0
    /\ partial = <<>>
    /\ store \in [Paths -> {{}} \cup {PartFiles(JsonDumps(d)) : d \in SinkDocs}]
    /\ before = store
    /\ sinkPc = "idle"
    /\ sinkPath = "problem1"
    /\ sinkObj = <<>>
    /\ deleted = "-"
    /\ crashedAt = "-"
    /\ calls = 0
    /\ MainUnused
    /\ ApiUnused

SinkCall ==
    /\ calls < MaxSinkCalls
    /\ \E path \in Paths : \E obj \in SinkDocs : SinkEnter(path, obj)
    /\ before' = store
    /\ UNCHANGED <<pc, aggVars, mainVars, apiVars>>

\* The caller takes the return or the exception; a later run follows a crash.
SinkLeave ==
    /\ sinkPc \in {"returned", "raised", "crashed"}
    /\ calls < MaxSinkCalls
    /\ sinkPc' = "idle"
    /\ crashedAt' = "-"
    /\ UNCHANGED <<pc, aggVars, mainVars, apiVars, store, before, sinkPath, sinkObj,
                   deleted, calls>>

NextSink ==
    \/ SinkCall
    \/ DeleteGcsPath /\ UNCHANGED <<pc, aggVars, mainVars, apiVars>>
    \/ SaveStage /\ UNCHANGED <<pc, aggVars, mainVars, apiVars>>
    \/ SaveCommit /\ UNCHANGED <<pc, aggVars, mainVars, apiVars>>
    \/ SinkCrash /\ UNCHANGED <<pc, aggVars, mainVars, apiVars>>
    \/ SinkLeave

SpecSink == InitSink /\ [][NextSink]_vars

(***************************************************************************)
(* Input files of the aggregation: well-formed rows of two (date, origin)  *)
(* groups; the first group may hold every airline, the second the last     *)
(* two.                                                                    *)
(***************************************************************************)
FlightLines(n) ==
    {Line(DateStr(1), AirlineCode(a), OriginStr(1)) : a \in 1..n}
        \cup {Line(DateStr(2), AirlineCode(a), OriginStr(1)) : a \in (n - 1)..n}

SeqsUpTo(S, n) == UNION {[1..k -> S] : k \in 0..n}

InitAgg ==
    /\ input \in SeqsUpTo(FlightLines(NumAirlines), MaxLines)
    /\ pc = "start"
    /\ emitted = Ok(<<>>)
    /\ result = Ok(<<>>)
    /\ cut = 0
    /\ partial = <<>>
    /\ SinkUnused
    /\ MainUnused
    /\ ApiUnused

\* result_problem1 = co_occurring_airline_pairs_by_origin(flights_data).collect()
Aggregate ==
    /\ pc = "start"
    /\ emitted' = pair_increments(input)
    /\ result' = co_occurring_airline_pairs_by_origin(input)
    /\ pc' = "collected"
    /\ UNCHANGED <<input, cut, partial, sinkVars, mainVars, apiVars>>

NextAgg == Aggregate

SpecAgg == InitAgg /\ [][NextAgg]_vars

(***************************************************************************)
(* The same function on raw files: rows of two, three or four fields and   *)
(* rows with an empty date, airline or origin among the well-formed ones.  *)
(***************************************************************************)
RawLines ==
    {Line(DateStr(1), AirlineCode(a), OriginStr(1)) : a \in 1..2}
        \cup {DateStr(1) \o <<Comma>> \o AirlineCode(3),
              Line(DateStr(1), AirlineCode(3), OriginStr(1)) \o <<Comma>> \o OriginStr(2),
              Line(DateStr(1), <<>>, OriginStr(1)),
              Line(<<>>, AirlineCode(3), OriginStr(1)),
              Line(DateStr(1), AirlineCode(3), <<>>),
              <<>>}

InitRaw ==
    /\ input \in SeqsUpTo(RawLines, MaxRawLines)
    /\ pc = "start"
    /\ emitted = Ok(<<>>)
    /\ result = Ok(<<>>)
    /\ cut = 0
    /\ partial = <<>>
    /\ SinkUnused
    /\ MainUnused
    /\ ApiUnused

SpecRaw == InitRaw /\ [][NextAgg]_vars

(***************************************************************************)
(* The function run on the whole file and on each of two partitions of it. *)
(* sc.textFile cuts a file into contiguous ranges of rows; as the files    *)
(* range over every arrangement of rows, the cuts range over every way of  *)
(* dividing a collection of rows in two.  One row has two fields only.     *)
(***************************************************************************)
ShardLines ==
    FlightLines(NumAirlines) \cup {DateStr(1) \o <<Comma>> \o AirlineCode(1)}

InitShard ==
    /\ input \in SeqsUpTo(ShardLines, MaxShardLines)
    /\ cut \in 0..Len(input)
    /\ pc = "start"
    /\ emitted = Ok(<<>>)
    /\ result = Ok(<<>>)
    /\ partial = <<>>
    /\ SinkUnused
    /\ MainUnused
    /\ ApiUnused

AggregateShards ==
    /\ pc = "start"
    /\ partial' = <<co_occurring_airline_pairs_by_origin(SubSeq(input, 1, cut)),
                    co_occurring_airline_pairs_by_origin(SubSeq(input, cut + 1, Len(input)))>>
    /\ emitted' = pair_increments(input)
    /\ result' = co_occurring_airline_pairs_by_origin(input)
    /\ pc' = "sharded"
    /\ UNCHANGED <<input, cut, sinkVars, mainVars, apiVars>>

NextShard == AggregateShards

SpecShard == InitShard /\ [][NextShard]_vars

(***************************************************************************)
(* main: problem 1, its document, the Sink; problem 2, its document, the   *)
(* Sink.                                                                   *)
(***************************************************************************)
TopK == 10

\* Mutation: for i in range(len(top10)), which formats what there is.
format_p1_available(rdd) ==
    LET top10 == SubSeq(rdd, 1, IF Len(rdd) < TopK THEN Len(rdd) ELSE TopK)
    IN  [status |-> "ok",
         doc |-> [k \in {ToString(i) : i \in 1..Len(top10)} |->
                    LET i == CHOOSE n \in 1..Len(top10) : ToString(n) = k
                    IN  [flight_1 |-> top10[i][1][1],
                         flight_2 |-> top10[i][1][2],
                         common_origin |-> top10[i][2]]]]

\* top10 = result_problem1[:10]; formatted_p1 = {str(i + 1): {..top10[i]..}
\* for i in range(10)}: top10[i] raises IndexError when i >= len(top10).
format_p1(rdd) ==
    LET top10 == SubSeq(rdd, 1, IF Len(rdd) < TopK THEN Len(rdd) ELSE TopK)
    IN  IF \E i \in 0..(TopK - 1) : i >= Len(top10)
        THEN [status |-> "IndexError", doc |-> <<>>]
        ELSE [status |-> "ok",
              doc |-> [k \in {ToString(i + 1) : i \in 0..(TopK - 1)} |->
                         LET i == CHOOSE n \in 0..(TopK - 1) : ToString(n + 1) = k
                         IN  [flight_1 |-> top10[i + 1][1][1],
                              flight_2 |-> top10[i + 1][1][2],
                              common_origin |-> top10[i + 1][2]]]]

\* result_problem2: the five one-key objects; each sentence stands for the
\* f-string built around the query's answer.
problem2_document ==
    <<[q1 |-> "q1"], [q2 |-> "q2"], [q3 |-> "q3"], [q4 |-> "q4"], [q5 |-> "q5"]>>

\* Documents an earlier run left at the two paths.
OldP1 ==
    [k \in {ToString(i) : i \in 1..TopK} |->
        [flight_1 |-> AirlineCode(1), flight_2 |-> AirlineCode(2), common_origin |-> 7]]
OldP2 == <<[q1 |-> "old"]>>

\* flights_data.txt: some of the well-formed rows and of one two-field row.
MainLines ==
    FlightLines(NumMainAirlines) \cup {DateStr(1) \o <<Comma>> \o AirlineCode(1)}

InitMain ==
    /\ pc = "problem1"
    /\ \E S \in SUBSET MainLines : input = SortedStrs(S)
    /\ emitted = Ok(<<>>)
    /\ result = Ok(<<>>)
    /\ cut = 0
    /\ partial = <<>>
    /\ \E o1 \in {{}, PartFiles(JsonDumps(OldP1))} :
          \E o2 \in {{}, PartFiles(JsonDumps(OldP2))} :
              store = [p \in Paths |-> IF p = "problem1" THEN o1 ELSE o2]
    /\ before = store
    /\ sinkPc = "idle"
    /\ sinkPath = "problem1"
    /\ sinkObj = <<>>
    /\ deleted = "-"
    /\ crashedAt = "-"
    /\ calls = 0
    /\ MainUnused
    /\ ApiUnused

\* flights_data = sc.textFile(..); result_problem1 = co_occurring_..(..).collect()
MainProblem1 ==
    /\ pc = "problem1"
    /\ emitted' = pair_increments(input)
    /\ result' = co_occurring_airline_pairs_by_origin(input)
    /\ IF result'.status = "ok"
       THEN pc' = "format" /\ abortedAt' = abortedAt
       ELSE pc' = "aborted" /\ abortedAt' = "problem1"
    /\ UNCHANGED <<input, cut, partial, sinkVars, formatted_p1, result_problem2, apiVars>>

\* top10 and formatted_p1
MainFormat ==
    /\ pc = "format"
    /\ LET f == format_p1(result.rdd)
       IN  IF f.status = "ok"
           THEN pc' = "save_p1" /\ formatted_p1' = f.doc /\ abortedAt' = abortedAt
           ELSE pc' = "aborted" /\ formatted_p1' = formatted_p1 /\ abortedAt' = "format"
    /\ UNCHANGED <<aggVars, sinkVars, result_problem2, apiVars>>

\* save_json_to_gcs(spark, formatted_p1, gcs(GCS_BASE_PATH, "problem1"))
MainSaveP1 ==
    /\ pc = "save_p1"
    /\ SinkEnter("problem1", formatted_p1)
    /\ pc' = "saving_p1"
    /\ UNCHANGED <<aggVars, mainVars, before, apiVars>>

\* The Sink returns to main, or its exception ends the run.
MainAfterSave ==
    /\ pc \in {"saving_p1", "saving_p2"}
    /\ sinkPc \in {"returned", "raised"}
    /\ IF sinkPc = "raised"
       THEN pc' = "aborted" /\ abortedAt' = pc
       ELSE /\ pc' = IF pc = "saving_p1" THEN "problem2" ELSE "done"
            /\ abortedAt' = abortedAt
    /\ sinkPc' = "idle"
    /\ UNCHANGED <<aggVars, store, before, sinkPath, sinkObj, deleted, crashedAt,
                   calls, formatted_p1, result_problem2, apiVars>>

\* spark.read.csv(..), the five queries q1..q5 and result_problem2; reading
\* the CSV or a query may raise.
MainProblem2 ==
    /\ pc = "problem2"
    /\ \/ /\ result_problem2' = problem2_document
          /\ pc' = "save_p2"
          /\ abortedAt' = abortedAt
       \/ /\ result_problem2' = result_problem2
          /\ pc' = "aborted"
          /\ abortedAt' = "problem2"
    /\ UNCHANGED <<aggVars, sinkVars, formatted_p1, apiVars>>

\* save_json_to_gcs(spark, result_problem2, gcs(GCS_BASE_PATH, "problem2"))
MainSaveP2 ==
    /\ pc = "save_p2"
    /\ SinkEnter("problem2", result_problem2)
    /\ pc' = "saving_p2"
    /\ UNCHANGED <<aggVars, mainVars, before, apiVars>>

NextMain ==
    \/ MainProblem1
    \/ MainFormat
    \/ MainSaveP1
    \/ DeleteGcsPath /\ UNCHANGED <<pc, aggVars, mainVars, apiVars>>
    \/ SaveStage /\ UNCHANGED <<pc, aggVars, mainVars, apiVars>>
    \/ SaveCommit /\ UNCHANGED <<pc, aggVars, mainVars, apiVars>>
    \/ MainAfterSave
    \/ MainProblem2
    \/ MainSaveP2

SpecMain == InitMain /\ [][NextMain]_vars

(***************************************************************************)
(* GET /results (get_results).  The job's outputs lie in the bucket        *)
(* "data" under the base path "P"; a request names a bucket and a path.    *)
(* Both try blocks catch every exception of the storage service, so the    *)
(* outer handler (500) is left to a bucket name the client library itself  *)
(* rejects; the requests here name well-formed buckets.                    *)
(***************************************************************************)
Slash == 47

BasePath == <<80>>

\* if path_prefix and not path_prefix.endswith('/'): path_prefix += '/'
Normalized(path_prefix) ==
    IF path_prefix # <<>> /\ path_prefix[Len(path_prefix)] # Slash
    THEN path_prefix \o <<Slash>>
    ELSE path_prefix

\* f"{path_prefix}problem1/part-00000" and f"gs://{bucket_name}/{..}"
BlobName(path_prefix, leaf) == <<Normalized(path_prefix), leaf, "part-00000">>
GsPath(bucket_name, blob) == <<"gs://", bucket_name>> \o blob

\* The texts of the objects of that name in the bucket.
BlobTexts(st, bucket_name, blob) ==
    IF bucket_name = "data" /\ blob[1] = BasePath \o <<Slash>>
    THEN {o.text : o \in {x \in st[blob[2]] : x.name = blob[3]}}
    ELSE {}

\* One try block of get_results: blob.exists(), download_as_text() and
\* json.loads(); the entry it stores and whether it sets client_error.  An
\* exception (of the storage service, or of json.loads on a text that is
\* not JSON) stores str(e) and leaves client_error alone.
ReadEntry(st, bucket_name, blob, fails) ==
    LET texts == BlobTexts(st, bucket_name, blob)
        where == GsPath(bucket_name, blob)
    IN  IF fails
        THEN [entry |-> [error |-> "exception", path |-> where], client_error |-> FALSE]
        ELSE IF texts = {}
        THEN [entry |-> [error |-> "File not found", path |-> where],
              client_error |-> TRUE]
        ELSE LET text == CHOOSE t \in texts : TRUE
             IN  IF text.kind = "json"
                 THEN [entry |-> [json |-> text.value], client_error |-> FALSE]
                 ELSE [entry |-> [error |-> "exception", path |-> where],
                       client_error |-> FALSE]

\* What the two paths may hold when a request arrives: nothing, a document,
\* a text that is not JSON, or a partition still staged.
ApiContents(doc) ==
    {{}, PartFiles(JsonDumps(doc)), PartFiles(Truncated(JsonDumps(doc))),
     StagedFiles(JsonDumps(doc))}

InitApi ==
    /\ pc = "read1"
    /\ input = <<>>
    /\ emitted = Ok(<<>>)
    /\ result = Ok(<<>>)
    /\ cut = 0
    /\ partial = <<>>
    /\ \E o1 \in ApiContents(OldP1) : \E o2 \in ApiContents(OldP2) :
          store = [p \in Paths |-> IF p = "problem1" THEN o1 ELSE o2]
    /\ before = store
    /\ sinkPc = "idle"
    /\ sinkPath = "problem1"
    /\ sinkObj = <<>>
    /\ deleted = "-"
    /\ crashedAt = "-"
    /\ calls = 0
    /\ MainUnused
    /\ request \in [bucket : {"data", "other"},
                    path : {<<>>, BasePath, BasePath \o <<Slash>>}]
    /\ transport \in {<<FALSE, FALSE>>, <<TRUE, FALSE>>, <<FALSE, TRUE>>}
    /\ results = <<>>
    /\ client_error = FALSE
    /\ response = NoResponse

\* The try block that reads problem1/part-00000.
ApiRead1 ==
    /\ pc = "read1"
    /\ LET r == ReadEntry(store, request.bucket,
                          BlobName(request.path, "problem1"), transport[1])
       IN  /\ results' = [k \in {"problem_1"} |-> r.entry]
           /\ client_error' = (client_error \/ r.client_error)
    /\ pc' = "read2"
    /\ UNCHANGED <<aggVars, sinkVars, mainVars, request, transport, response>>

\* The try block that reads problem2/part-00000.
ApiRead2 ==
    /\ pc = "read2"
    /\ LET r == ReadEntry(store, request.bucket,
                          BlobName(request.path, "problem2"), transport[2])
       IN  /\ results' = [k \in {"problem_1", "problem_2"} |->
                            IF k = "problem_2" THEN r.entry ELSE results[k]]
           /\ client_error' = (client_error \/ r.client_error)
    /\ pc' = "respond"
    /\ UNCHANGED <<aggVars, sinkVars, mainVars, request, transport, response>>

\* return jsonify({status, bucket, results}), 200 if not client_error else 400
ApiRespond ==
    /\ pc = "respond"
    /\ response' = [code |-> IF ~ client_error THEN 200 ELSE 400,
                    status |-> IF ~ client_error THEN "success" ELSE "client_error"]
    /\ pc' = "responded"
    /\ UNCHANGED <<aggVars, sinkVars, mainVars, request, transport, results, client_error>>

NextApi ==
    \/ ApiRead1
    \/ ApiRead2
    \/ ApiRespond

SpecApi == InitApi /\ [][NextApi]_vars

(***************************************************************************)
(* What the aggregation is to compute, stated on the records themselves.   *)
(***************************************************************************)
\* The (date, airline, origin) records of a file: the first three fields
\* of each row that has them.
RecordsOf(lines) ==
    {<<f[1], f[2], f[3]>> :
        f \in {g \in {Split(lines[i]) : i \in 1..Len(lines)} : Len(g) >= 3}}

GroupsOf(recs) == {<<r[1], r[3]>> : r \in recs}

AirlinesOf(recs, g) == {r[2] : r \in {q \in recs : <<q[1], q[3]>> = g}}

AllAirlines(recs) == {r[2] : r \in recs}

\* The number of (date, origin) groups in which both a and b appear.
CoOccurrences(recs, a, b) ==
    Cardinality({g \in GroupsOf(recs) :
                    <<g[1], a, g[2]>> \in recs /\ <<g[1], b, g[2]>> \in recs})

\* The sum of n*(n-1)/2 over the groups S, n the group's distinct airlines.
RECURSIVE PairsDue(_, _)
PairsDue(S, recs) ==
    IF S = {} THEN 0
    ELSE LET g == CHOOSE x \in S : TRUE
             n == Cardinality(AirlinesOf(recs, g))
         IN  ((n * (n - 1)) \div 2) + PairsDue(S \ {g}, recs)

\* The count the result reports for the unordered pair {a, b}.
RECURSIVE Reported(_, _, _)
Reported(rdd, a, b) ==
    IF rdd = <<>> THEN 0
    ELSE (IF Head(rdd)[1] \in {<<a, b>>, <<b, a>>} THEN Head(rdd)[2] ELSE 0)
             + Reported(Tail(rdd), a, b)

\* C1: the count reported for a pair is the number of (date, origin) groups
\* in which both airlines appear (a repeated airline counts once), and a
\* group of n distinct airlines emits n*(n-1)/2 increments, so none for
\* n = 0 or 1.
C1_CountIsGroupsShared ==
    (pc = "collected" /\ result.status = "ok") =>
        LET recs == RecordsOf(input)
            all  == AllAirlines(recs)
        IN  /\ \A a \in all : \A b \in all \ {a} :
                  Reported(result.rdd, a, b) = CoOccurrences(recs, a, b)
            /\ \A i \in 1..Len(result.rdd) :
                  /\ result.rdd[i][2] >= 1
                  /\ result.rdd[i][1][1] \in all
                  /\ result.rdd[i][1][2] \in all
            /\ Len(emitted.rdd) = PairsDue(GroupsOf(recs), recs)

\* A group whose two airlines fill three rows, one airline twice, next to
\* a second group holding the same two: the pair is counted twice, not
\* three times.
C1_Witness ==
    /\ pc = "collected"
    /\ result.status = "ok"
    /\ Len(input) = 5
    /\ Cardinality(RecordsOf(input)) = 4
    /\ Cardinality(GroupsOf(RecordsOf(input))) = 2
    /\ result.rdd = << <<<<AirlineCode(2), AirlineCode(3)>>, 2>> >>

\* C2: every pair key has its first code strictly below its second, so no
\* key occurs in both orientations and no key pairs a code with itself.
C2_CanonicalOrientation ==
    (pc = "collected" /\ result.status = "ok") =>
        /\ \A i \in 1..Len(emitted.rdd) :
              StrLess(emitted.rdd[i][1][1], emitted.rdd[i][1][2])
        /\ \A i \in 1..Len(result.rdd) :
              /\ StrLess(result.rdd[i][1][1], result.rdd[i][1][2])
              /\ result.rdd[i][1][1] # result.rdd[i][1][2]
              /\ \A j \in 1..Len(result.rdd) :
                    result.rdd[j][1] # <<result.rdd[i][1][2], result.rdd[i][1][1]>>

\* The rows name the later airline first, and the pair still comes out
\* smaller code first.
C2_Witness ==
    /\ pc = "collected"
    /\ Len(input) >= 2
    /\ Split(input[1])[2] = AirlineCode(3)
    /\ Split(input[2])[2] = AirlineCode(2)
    /\ \E i \in 1..Len(result.rdd) :
          result.rdd[i][1] = <<AirlineCode(2), AirlineCode(3)>>

\* The Ranker's order on (pair, count) entries, as the contract words it.
RankedBefore(x, y) ==
    \/ x[2] > y[2]
    \/ x[2] = y[2] /\ StrLess(x[1][1], y[1][1])
    \/ x[2] = y[2] /\ x[1][1] = y[1][1] /\ StrLess(x[1][2], y[1][2])

\* The rows of a file in increasing order: one arrangement per multiset.
RECURSIVE SortedLines(_)
SortedLines(lines) ==
    IF lines = <<>> THEN <<>>
    ELSE LET n    == Len(lines)
             rest == SortedLines(SubSeq(lines, 1, n - 1))
             p    == Cardinality({i \in 1..Len(rest) : ~ StrLess(lines[n], rest[i])})
         IN  SubSeq(rest, 1, p) \o <<lines[n]>> \o SubSeq(rest, p + 1, Len(rest))

\* C4: the ranked sequence is strictly ordered by count descending, then
\* first code, then second code, and it is the one every arrangement of the
\* same rows yields.
C4_RankedOrderDeterministic ==
    (pc = "collected" /\ result.status = "ok") =>
        /\ \A i \in 1..Len(result.rdd) : \A j \in (i + 1)..Len(result.rdd) :
              RankedBefore(result.rdd[i], result.rdd[j])
        /\ result = co_occurring_airline_pairs_by_origin(SortedLines(input))

\* Rows not in sorted order; the most frequent pair leads although its
\* first code is the larger, and a tie of counts follows it.
C4_Witness ==
    /\ pc = "collected"
    /\ input # SortedLines(input)
    /\ Len(result.rdd) = 3
    /\ result.rdd[1][2] = 2
    /\ StrLess(result.rdd[2][1][1], result.rdd[1][1][1])
    /\ result.rdd[2][2] = result.rdd[3][2]

\* The pair counts of a result, and two of them merged by summing the
\* counts of equal pair keys.
CountsOf(rdd) == {rdd[i] : i \in 1..Len(rdd)}

MergedCounts(r1, r2) ==
    {<<k, Reported(r1, k[1], k[2]) + Reported(r2, k[1], k[2])>> :
        k \in {e[1] : e \in CountsOf(r1) \cup CountsOf(r2)}}

\* C3 as stated: for every division of the rows in two, the merged counts
\* of the partitions are the counts of the whole file.
C3_MergeOfAnySplit ==
    (pc = "sharded" /\ result.status = "ok"
         /\ partial[1].status = "ok" /\ partial[2].status = "ok") =>
        MergedCounts(partial[1].rdd, partial[2].rdd) = CountsOf(result.rdd)

\* No (date, origin) group has rows in both partitions.
GroupsKeptWhole ==
    GroupsOf(RecordsOf(SubSeq(input, 1, cut)))
        \cap GroupsOf(RecordsOf(SubSeq(input, cut + 1, Len(input)))) = {}

\* C3 amended: when no (date, origin) group has rows in both partitions,
\* the merged counts of the partitions are the counts of the whole file;
\* and the run on the whole file aborts exactly when the run on one of the
\* partitions does, with the same exception.
C3_MergeOfGroupAlignedSplit ==
    (pc = "sharded" /\ GroupsKeptWhole) =>
        IF result.status = "ok"
        THEN /\ partial[1].status = "ok" /\ partial[2].status = "ok"
             /\ MergedCounts(partial[1].rdd, partial[2].rdd) = CountsOf(result.rdd)
        ELSE \E i \in 1..2 : partial[i].status = result.status

\* Each partition holds one whole group and yields the same pair, whose
\* merged count is 2.
C3_Witness ==
    /\ pc = "sharded"
    /\ GroupsKeptWhole
    /\ result.status = "ok"
    /\ Len(partial[1].rdd) = 1
    /\ partial[2].rdd = partial[1].rdd
    /\ result.rdd = << <<partial[1].rdd[1][1], 2>> >>

\* A row the parser is to accept: three fields, none empty.
WellFormed(line) ==
    LET f == Split(line)
    IN  Len(f) = 3 /\ f[1] # <<>> /\ f[2] # <<>> /\ f[3] # <<>>

RECURSIVE WellFormedOnly(_)
WellFormedOnly(lines) ==
    IF lines = <<>> THEN <<>>
    ELSE (IF WellFormed(Head(lines)) THEN <<Head(lines)>> ELSE <<>>)
             \o WellFormedOnly(Tail(lines))

\* C5: a malformed row never aborts the run and is left out: the counts are
\* those of the file without its malformed rows.
C5_MalformedRowsDropped ==
    pc = "collected" =>
        /\ result.status = "ok"
        /\ CountsOf(result.rdd)
              = CountsOf(co_occurring_airline_pairs_by_origin(WellFormedOnly(input)).rdd)

\* C6 as stated: a run of main that ends in an error has neither deleted
\* nor rewritten the problem1 or the problem2 path.
C6_AbortedRunPublishesNothing ==
    pc = "aborted" => store = before

Readable(st, path) == {o.text : o \in {x \in st[path] : x.name = "part-00000"}}

ReaderSeesWholeOrNothing ==
    \A p \in Paths :
        /\ Cardinality(Readable(store, p)) <= 1
        /\ \A t \in Readable(store, p) : t.kind = "json"

\* C8 as stated: a reader finds the path absent or one complete document
\* at every point; a crash between the delete and the write leaves the
\* path absent; a normal return leaves the new document.
C8_CrashLeavesPathAbsent ==
    /\ ReaderSeesWholeOrNothing
    /\ (sinkPc = "crashed" /\ crashedAt = "write") => store[sinkPath] = {}
    /\ sinkPc = "returned" =>
          Readable(store, sinkPath) = {[kind |-> "json", value |-> sinkObj]}

\* C8 amended: as stated, except that a crash between the delete and the
\* write leaves the path absent only if the delete step did not fail; after
\* a failed delete the path is absent or still holds what it held before.
C8_CrashLeavesAbsentOrPrior ==
    /\ ReaderSeesWholeOrNothing
    /\ (sinkPc = "crashed" /\ crashedAt = "write") =>
          IF deleted = "Error"
          THEN store[sinkPath] \in {{}, before[sinkPath]}
          ELSE store[sinkPath] = {}
    /\ sinkPc = "returned" =>
          Readable(store, sinkPath) = {[kind |-> "json", value |-> sinkObj]}

\* The process died after deleting a document and before writing the next.
C8_Witness ==
    /\ sinkPc = "crashed"
    /\ crashedAt = "write"
    /\ deleted = "Deleted"
    /\ Readable(before, sinkPath) # {}
    /\ store[sinkPath] = {}

\* Whether a request's read of a file succeeds: the object is there, the
\* service answers, the text is JSON.
ReadAndParsed(i, leaf) ==
    /\ ~ transport[i]
    /\ request.bucket = "data"
    /\ request.path \in {BasePath, BasePath \o <<Slash>>}
    /\ \E o \in store[leaf] : o.name = "part-00000" /\ o.text.kind = "json"

Absent(leaf) ==
    \/ request.bucket # "data"
    \/ request.path \notin {BasePath, BasePath \o <<Slash>>}
    \/ ~ \E o \in store[leaf] : o.name = "part-00000"

\* C9 as stated: the answer is 200 exactly when both files were read and
\* parsed, and 400 otherwise; an absent file is reported in its own entry
\* as "File not found" while the other entry carries its parsed JSON.
C9_OkIffBothParsed ==
    pc = "responded" =>
        /\ response.code = 200
              <=> (ReadAndParsed(1, "problem1") /\ ReadAndParsed(2, "problem2"))
        /\ response.code \in {200, 400}
        /\ (Absent("problem1") /\ ~ transport[1]) =>
              results["problem_1"].error = "File not found"
        /\ (Absent("problem2") /\ ~ transport[2]) =>
              results["problem_2"].error = "File not found"
        /\ ReadAndParsed(1, "problem1") =>
              results["problem_1"] = [json |-> OldP1]
        /\ ReadAndParsed(2, "problem2") =>
              results["problem_2"] = [json |-> OldP2]

\* C10: with fewer than 10 pairs main fails while formatting, before any
\* Sink call, and both paths are as they were; with 10 or more the document
\* has the keys "1".."10", key i holding the i-th pair of the ranked result
\* with its count.
C10_FormatFailsOrTopTen ==
    /\ (pc # "problem1" /\ result.status = "ok" /\ Len(result.rdd) < TopK) =>
          /\ pc \in {"format", "aborted"}
          /\ pc = "aborted" => abortedAt = "format"
          /\ calls = 0
          /\ sinkPc = "idle"
          /\ store = before
    /\ (pc \notin {"problem1", "format"} /\ result.status = "ok"
            /\ Len(result.rdd) >= TopK) =>
          /\ DOMAIN formatted_p1 = {"1", "2", "3", "4", "5", "6", "7", "8", "9", "10"}
          /\ \A i \in 1..10 :
                formatted_p1[ToString(i)]
                    = [flight_1 |-> result.rdd[i][1][1],
                       flight_2 |-> result.rdd[i][1][2],
                       common_origin |-> result.rdd[i][2]]
          /\ \A i \in 1..10 : \A j \in (i + 1)..10 :
                RankedBefore(result.rdd[i], result.rdd[j])

\* A run whose file yields some pairs but fewer than 10 has ended while
\* formatting; the documents of an earlier run are still at both paths.
C10_Witness ==
    /\ pc = "aborted"
    /\ abortedAt = "format"
    /\ result.status = "ok"
    /\ Len(result.rdd) \in 1..(TopK - 1)
    /\ \A p \in Paths : store[p] # {}
    /\ store = before

=============================================================================
